---- MODULE Spec2Model ----
(***************************************************************************)
(* narthex: first-come-first-served registration of a key blob under a     *)
(* numeric identifier (src/src/narthex.c, narthex_register).               *)
(*                                                                         *)
(* The handler is modelled as a process per request.  A step of a request  *)
(* runs the handler's code up to and including its next system call on the *)
(* key directory (open, write, close, unlink) or up to its return, so the  *)
(* interleavings are those of several workers running the handler on the   *)
(* same directory.  The outcome of every system call is a choice of the    *)
(* environment.                                                            *)
(*                                                                         *)
(* Numbers that do not fit a 32-bit signed integer (UINT_MAX, LLONG_MAX,   *)
(* the parsed value) are kept as their hexadecimal magnitude: a sequence   *)
(* of nibbles 0..15, most significant first, without leading zeros.        *)
(***************************************************************************)
EXTENDS Integers, Sequences, FiniteSets, TLC

\* ------------------------------------------------------------------ bounds

\* Number of requests the host serving layer delivers.
NReq == 3

\* Number of requests delivered when the trailing segments are explored.
NParse == 2

Reqs == 1..NReq

\* Request bodies: an empty one, and two of which one is a prefix of the other.
Bodies == {<<>>, <<"a">>, <<"a", "b">>}

\* ------------------------------------------------------- numbers as nibbles

HexDigits == <<"0","1","2","3","4","5","6","7","8","9","a","b","c","d","e","f">>

UpperDigits == <<"0","1","2","3","4","5","6","7","8","9","A","B","C","D","E","F">>

\* The value of a character as a digit, -1 when it is none (strtoll's digit
\* test: 0-9, a-z, A-Z, valid when below the base).
DigitVal(c) ==
    IF \E i \in 1..16 : HexDigits[i] = c
    THEN (CHOOSE i \in 1..16 : HexDigits[i] = c) - 1
    ELSE IF \E i \in 1..16 : UpperDigits[i] = c
    THEN (CHOOSE i \in 1..16 : UpperDigits[i] = c) - 1
    ELSE -1

IsDigit(c, base) == DigitVal(c) >= 0 /\ DigitVal(c) < base

IsSpace(c) == c \in {" ", "\t"}

\* A nibble sequence without its leading zeros (zero is the empty sequence).
RECURSIVE Canon(_)
Canon(d) == IF d # <<>> /\ Head(d) = 0 THEN Canon(Tail(d)) ELSE d

\* a > b on canonical magnitudes.
Gt(a, b) ==
    \/ Len(a) > Len(b)
    \/ /\ Len(a) = Len(b)
       /\ \E i \in 1..Len(a) :
            /\ a[i] > b[i]
            /\ \A j \in 1..(i - 1) : a[j] = b[j]

Zero == <<>>

\* UINT_MAX = 0xffffffff
UINT_MAX == [i \in 1..8 |-> 15]

\* LLONG_MAX = 0x7fffffffffffffff
LLONG_MAX == [i \in 1..16 |-> IF i = 1 THEN 7 ELSE 15]

\* -LLONG_MIN = 0x8000000000000000
LLONG_MIN_MAG == [i \in 1..16 |-> IF i = 1 THEN 8 ELSE 0]

\* ------------------------------------------------------------------ parsing

\* strrchr(s, c): the index of the last c in s, 0 (NULL) when there is none.
strrchr(s, c) ==
    IF \E i \in 1..Len(s) : s[i] = c
    THEN CHOOSE i \in 1..Len(s) : s[i] = c /\ \A j \in (i + 1)..Len(s) : s[j] # c
    ELSE 0

\* The first index at or after i whose character is no white space.
RECURSIVE SkipSpace(_, _)
SkipSpace(s, i) ==
    IF i <= Len(s) /\ IsSpace(s[i]) THEN SkipSpace(s, i + 1) ELSE i

\* The first index at or after i whose character is no digit of the base.
RECURSIVE SkipDigits(_, _, _)
SkipDigits(s, i, base) ==
    IF i <= Len(s) /\ IsDigit(s[i], base) THEN SkipDigits(s, i + 1, base) ELSE i

\* strtoll(str, &ep, base) for base 16: white space, an optional sign, an
\* optional 0x/0X that a hex digit follows, then the longest run of digits.
\* ep is the index of the first character not converted, 1 (= str) when no
\* digits were found; errno is ERANGE when the value does not fit a long long.
strtoll(str, base) ==
    LET i0  == SkipSpace(str, 1)
        sgn == i0 <= Len(str) /\ str[i0] \in {"+", "-"}
        neg == sgn /\ str[i0] = "-"
        i1  == IF sgn THEN i0 + 1 ELSE i0
        pfx == /\ base = 16
               /\ i1 + 2 <= Len(str)
               /\ str[i1] = "0"
               /\ str[i1 + 1] \in {"x", "X"}
               /\ IsDigit(str[i1 + 2], base)
        i2  == IF pfx THEN i1 + 2 ELSE i1
        j   == SkipDigits(str, i2, base)
        mag == Canon([k \in 1..(j - i2) |-> DigitVal(str[i2 + k - 1])])
    IN  IF j = i2
        THEN [neg |-> FALSE, mag |-> Zero, ep |-> 1, erange |-> FALSE]
        ELSE [neg |-> neg /\ mag # Zero, mag |-> mag, ep |-> j,
              erange |-> IF neg THEN Gt(mag, LLONG_MIN_MAG) ELSE Gt(mag, LLONG_MAX)]

\* kore_strtonum(str, base, min, max, &err) with 0 <= min <= max: the value and
\* err = TRUE (KORE_RESULT_OK) or FALSE (KORE_RESULT_ERROR).
kore_strtonum(str, base, min, max) ==
    LET r == strtoll(str, base)
    IN  IF r.erange \/ r.ep = 1 \/ r.ep <= Len(str)
        THEN [ok |-> FALSE, val |-> Zero]
        ELSE IF r.neg \/ Gt(min, r.mag)
        THEN [ok |-> FALSE, val |-> Zero]
        ELSE IF Gt(r.mag, max)
        THEN [ok |-> FALSE, val |-> Zero]
        ELSE [ok |-> TRUE, val |-> r.mag]

\* The assignment of a long long to u_int32_t keyid: the low 32 bits.
ToU32(mag) ==
    IF Len(mag) > 8 THEN Canon(SubSeq(mag, Len(mag) - 7, Len(mag))) ELSE mag

\* printf's %X: the conversion as it would be with the uppercase specifier.
HexString_upper(v) ==
    IF v = Zero THEN <<"0">> ELSE [i \in 1..Len(v) |-> UpperDigits[v[i] + 1]]

\* printf's %x: lowercase hexadecimal, no leading zeros, "0" for zero.
HexString(v) ==
    IF v = Zero THEN <<"0">> ELSE [i \in 1..Len(v) |-> HexDigits[v[i] + 1]]

\* snprintf(path, sizeof(path), "0x%x.key", keyid): the text it would write.
KeyPath(v) == <<"0", "x">> \o HexString(v) \o <<".", "k", "e", "y">>

PATH_MAX == 4096


\* ----------------------------------------------------------------- requests

\* "/r/" followed by a trailing segment.
Route(seg) == <<"/", "r", "/">> \o seg

Request(m, p, b) == [method |-> m, path |-> p, body |-> b]

\* Requests racing on identifiers: 0x1 under every body, another identifier,
\* another method, a path without '/'.
RacePool ==
    {Request("PUT", Route(<<"0", "x", "1">>), b) : b \in Bodies}
        \cup {Request("PUT", Route(<<"0", "x", "2">>), <<"b">>),
              Request("GET", Route(<<"0", "x", "1">>), <<"b">>),
              Request("PUT", <<"0", "x", "1">>, <<"b">>)}

\* Trailing segments: well-formed ones, and malformed in every way.
Segments ==
    {<<"0", "x", "1">>, <<"0", "X", "1", "F">>, <<"1">>, <<"0", "0", "1">>,
     <<"f", "f", "f", "f", "f", "f", "f", "f">>,
     <<>>, <<"0", "x">>, <<"z", "z">>, <<"0", "x", "z">>, <<"1", "g">>,
     <<"g", "1">>, <<"1", " ">>, <<"-", "1">>,
     <<"1", "0", "0", "0", "0", "0", "0", "0", "0">>,
     <<"0", "x", "f", "f", "f", "f", "f", "f", "f", "f", "f", "f">>,
     <<" ", "1">>, <<"+", "1">>, <<"-", "0">>}

ParsePool == {Request("PUT", Route(seg), <<"a">>) : seg \in Segments}

NoRequest == Request("", <<>>, <<>>)

\* The value of fd when no descriptor is open (open's failure value).
NoFd == -1

VARIABLES
    pool,   \* the requests the host serving layer may deliver
    pc,     \* per request: where the handler stands
    req,    \* per request: struct http_request (method, path, http_body)
    keyid,  \* per request: the local keyid
    path,   \* per request: the local path buffer
    fd,     \* per request: the descriptor it holds open, NoFd when none
    errno,  \* per request: errno after a failed open
    ret,    \* per request: the local ret
    resp,   \* per request: the http_response calls made, in order
    rv,     \* per request: the handler's return value
    ops,    \* per request: the system calls made and their results, in order
    logged, \* per request: the kore_log calls made, in order
    prior,  \* per request: the statuses already sent for its name when it began
    dir,    \* the key directory: name -> inode
    data    \* inode -> content; the file a request creates has its number

vars ==
    <<pool, pc, req, keyid, path, fd, errno, ret, resp, rv, ops, logged, prior,
      dir, data>>

Start ==
    /\ pc = [r \in Reqs |-> "idle"]
    /\ req = [r \in Reqs |-> NoRequest]
    /\ keyid = [r \in Reqs |-> Zero]
    /\ path = [r \in Reqs |-> <<>>]
    /\ fd = [r \in Reqs |-> NoFd]
    /\ errno = [r \in Reqs |-> "none"]
    /\ ret = [r \in Reqs |-> 0]
    /\ resp = [r \in Reqs |-> <<>>]
    /\ rv = [r \in Reqs |-> "none"]
    /\ ops = [r \in Reqs |-> <<>>]
    /\ logged = [r \in Reqs |-> <<>>]
    /\ prior = [r \in Reqs |-> {}]
    /\ dir = [n \in {} |-> NoFd]
    /\ data = [r \in Reqs |-> <<>>]

Init == pool \in {RacePool, ParsePool} /\ Start

\* The number of requests delivered from the pool.
Limit == IF pool = ParsePool THEN NParse ELSE NReq

\* http_response(req, status, NULL, 0)
http_response(r, status) ==
    resp' = [resp EXCEPT ![r] = Append(@, [status |-> status, len |-> 0])]

\* kore_log(LOG_NOTICE, msg, ...)
kore_log(r, msg) == logged' = [logged EXCEPT ![r] = Append(@, msg)]

\* return (value): the handler's frame is gone, and its locals with it.  Of
\* these keyid and path, which the request determines, are kept as the record
\* of the name the request addressed.
Return(r, value) ==
    /\ rv' = [rv EXCEPT ![r] = value]
    /\ pc' = [pc EXCEPT ![r] = "done"]
    /\ errno' = [errno EXCEPT ![r] = "none"]
    /\ ret' = [ret EXCEPT ![r] = 0]

\* Request r made the system call name; failed tells that it did not do what
\* was asked: nothing opened, not every byte written, no name removed.
Syscall(r, name, failed) ==
    ops' = [ops EXCEPT ![r] = Append(@, [op |-> name, failed |-> failed])]

\* The statuses of the responses request r has sent.
Statuses(r) == {resp[r][i].status : i \in 1..Len(resp[r])}

\* The statuses sent so far by the requests for name.
Sent(name) == UNION {Statuses(q) : q \in {x \in Reqs : path[x] = name}}

\* --------------------------------------------------------------- filesystem

Exists(name) == name \in DOMAIN dir

\* The content an observer reads under name.
Content(name) == data[dir[name]]

Link(name, inode) ==
    [n \in DOMAIN dir \cup {name} |-> IF n = name THEN inode ELSE dir[n]]

Unlinked(name) == [n \in DOMAIN dir \ {name} |-> dir[n]]

\* open() as it would act without O_EXCL: an existing file is opened and
\* truncated instead of refused.
open_noexcl(r, name) ==
    \/ /\ dir' = IF Exists(name) THEN dir ELSE Link(name, r)
       /\ data' = [data EXCEPT ![IF Exists(name) THEN dir[name] ELSE r] = <<>>]
       /\ fd' = [fd EXCEPT ![r] = IF Exists(name) THEN dir[name] ELSE r]
       /\ Syscall(r, "open", FALSE)
       /\ UNCHANGED errno
    \/ /\ errno' = [errno EXCEPT ![r] = "EOTHER"]
       /\ fd' = [fd EXCEPT ![r] = NoFd]
       /\ Syscall(r, "open", TRUE)
       /\ UNCHANGED <<dir, data>>

\* open(path, O_CREAT | O_TRUNC | O_EXCL | O_WRONLY, 0700) by request r: with
\* O_EXCL it creates the file or fails with EEXIST; it may fail for another
\* reason whether the file exists or not.
open(r, name) ==
    \/ /\ ~Exists(name)
       /\ dir' = Link(name, r)
       /\ data' = [data EXCEPT ![r] = <<>>]
       /\ fd' = [fd EXCEPT ![r] = r]
       /\ Syscall(r, "open", FALSE)
       /\ UNCHANGED errno
    \/ /\ \E e \in {"EEXIST", "EOTHER"} :
            /\ e = "EEXIST" => Exists(name)
            /\ errno' = [errno EXCEPT ![r] = e]
       /\ fd' = [fd EXCEPT ![r] = NoFd]
       /\ Syscall(r, "open", TRUE)
       /\ UNCHANGED <<dir, data>>

\* write(fd, buf, length) by request r: n = -1 on an error, else the number of
\* bytes written, the first n of buf appended to the file.
write(r, buf) ==
    \E n \in {-1} \cup 0..Len(buf) :
        /\ ret' = [ret EXCEPT ![r] = n]
        /\ data' = [data EXCEPT ![fd[r]] = @ \o SubSeq(buf, 1, n)]
        /\ Syscall(r, "write", n # Len(buf))

\* close(fd) by request r, returning c (0 or -1): the descriptor is released
\* either way, so the call is recorded as done; what the handler makes of c
\* is in logged.
close(r, c) ==
    /\ c \in {0, -1}
    /\ fd' = [fd EXCEPT ![r] = NoFd]
    /\ Syscall(r, "close", FALSE)

\* unlink(path) by request r: removes the name (and frees the file no
\* descriptor refers to), or fails and changes nothing.
unlink(r, name) ==
    \/ /\ Exists(name)
       /\ dir' = Unlinked(name)
       /\ data' = [data EXCEPT ![dir[name]] =
                     IF \E q \in Reqs : fd[q] = dir[name] THEN @ ELSE <<>>]
       /\ Syscall(r, "unlink", FALSE)
    \/ /\ Syscall(r, "unlink", TRUE)
       /\ UNCHANGED <<dir, data>>

\* ------------------------------------------------------------------ handler

\* The method check as it would be with the test left out.
MethodAny(rq) == TRUE

\* req->method == HTTP_METHOD_PUT
MethodAllowed(rq) == rq.method = "PUT"

\* narthex_register, from its entry to open() or to an earlier return.
Entry(r, rq) ==
    LET slash == strrchr(rq.path, "/")
        id    == SubSeq(rq.path, slash + 1, Len(rq.path))
        num   == kore_strtonum(id, 16, Zero, UINT_MAX)
        k     == ToU32(num.val)
        name  == KeyPath(k)
    IN  IF ~MethodAllowed(rq) \/ slash = 0
        THEN /\ Return(r, "KORE_RESULT_ERROR")
             /\ UNCHANGED <<keyid, path, fd, resp, ops, logged, prior, dir, data>>
        ELSE IF ~num.ok
        THEN /\ http_response(r, 400)
             /\ Return(r, "KORE_RESULT_OK")
             /\ UNCHANGED <<keyid, path, fd, ops, logged, prior, dir, data>>
        ELSE IF Len(name) >= PATH_MAX
        THEN /\ keyid' = [keyid EXCEPT ![r] = k]
             /\ http_response(r, 500)
             /\ Return(r, "KORE_RESULT_OK")
             /\ UNCHANGED <<path, fd, ops, logged, prior, dir, data>>
        ELSE /\ keyid' = [keyid EXCEPT ![r] = k]
             /\ path' = [path EXCEPT ![r] = name]
             /\ prior' = [prior EXCEPT ![r] = Sent(name)]
             /\ open(r, name)
             /\ pc' = [pc EXCEPT ![r] = "opened"]
             /\ UNCHANGED <<ret, resp, rv, logged>>

\* A request arrives (requests are numbered in their order of arrival) and the
\* handler runs lines 160-178.
Begin(r) ==
    /\ pc[r] = "idle"
    /\ r <= Limit
    /\ \A q \in Reqs : q < r => pc[q] # "idle"
    /\ \E rq \in pool :
         /\ req' = [req EXCEPT ![r] = rq]
         /\ Entry(r, rq)
    /\ UNCHANGED pool

\* Lines 179-190 as they would be if a collision cleared the name for the
\* next attempt: the existing file is unlinked before the 409.
AfterOpen_evicts(r) ==
    /\ pc[r] = "opened"
    /\ IF fd[r] = NoFd
       THEN /\ IF errno[r] = "EEXIST"
               THEN /\ unlink(r, path[r])
                    /\ http_response(r, 409)
                    /\ UNCHANGED logged
               ELSE /\ kore_log(r, "failed to open")
                    /\ http_response(r, 500)
                    /\ UNCHANGED <<ops, dir, data>>
            /\ Return(r, "KORE_RESULT_OK")
       ELSE /\ write(r, req[r].body)
            /\ pc' = [pc EXCEPT ![r] = "written"]
            /\ UNCHANGED <<errno, resp, rv, logged, dir>>
    /\ UNCHANGED <<pool, req, keyid, path, fd, prior>>

\* Lines 179-190 as they would be if the cleanup were shared by the failed
\* open: the name is unlinked before the 500.
AfterOpen_unlinks(r) ==
    /\ pc[r] = "opened"
    /\ IF fd[r] = NoFd
       THEN /\ IF errno[r] = "EEXIST"
               THEN /\ http_response(r, 409)
                    /\ UNCHANGED <<logged, ops, dir, data>>
               ELSE /\ kore_log(r, "failed to open")
                    /\ unlink(r, path[r])
                    /\ http_response(r, 500)
            /\ Return(r, "KORE_RESULT_OK")
       ELSE /\ write(r, req[r].body)
            /\ pc' = [pc EXCEPT ![r] = "written"]
            /\ UNCHANGED <<errno, resp, rv, logged, dir>>
    /\ UNCHANGED <<pool, req, keyid, path, fd, prior>>

\* Lines 179-190 as they would be if an existing name were taken for a
\* registration already made and answered 201.
AfterOpen_created(r) ==
    /\ pc[r] = "opened"
    /\ IF fd[r] = NoFd
       THEN /\ IF errno[r] = "EEXIST"
               THEN /\ http_response(r, 201)
                    /\ UNCHANGED logged
               ELSE /\ kore_log(r, "failed to open")
                    /\ http_response(r, 500)
            /\ Return(r, "KORE_RESULT_OK")
            /\ UNCHANGED <<ops, data>>
       ELSE /\ write(r, req[r].body)
            /\ pc' = [pc EXCEPT ![r] = "written"]
            /\ UNCHANGED <<errno, resp, rv, logged>>
    /\ UNCHANGED <<pool, req, keyid, path, fd, prior, dir>>

\* Lines 179-190: the failed open's response, or write().
AfterOpen(r) ==
    /\ pc[r] = "opened"
    /\ IF fd[r] = NoFd
       THEN /\ IF errno[r] = "EEXIST"
               THEN /\ http_response(r, 409)
                    /\ UNCHANGED logged
               ELSE /\ kore_log(r, "failed to open")
                    /\ http_response(r, 500)
            /\ Return(r, "KORE_RESULT_OK")
            /\ UNCHANGED <<ops, data>>
       ELSE /\ write(r, req[r].body)
            /\ pc' = [pc EXCEPT ![r] = "written"]
            /\ UNCHANGED <<errno, resp, rv, logged>>
    /\ UNCHANGED <<pool, req, keyid, path, fd, prior, dir>>

\* Lines 191-204 as they would be with the close() of the failed-write path
\* left out: the descriptor leaks.
AfterWrite_leak(r) ==
    /\ pc[r] = "written"
    /\ IF ret[r] = -1 \/ ret[r] # Len(req[r].body)
       THEN /\ kore_log(r, "failed to write keyfile")
            /\ pc' = [pc EXCEPT ![r] = "closed"]
            /\ UNCHANGED <<fd, ops, errno, ret, resp, rv>>
       ELSE /\ \E c \in {0, -1} :
                 /\ close(r, c)
                 /\ IF c = -1
                    THEN kore_log(r, "failed to close")
                    ELSE UNCHANGED logged
            /\ http_response(r, 201)
            /\ Return(r, "KORE_RESULT_OK")
    /\ UNCHANGED <<pool, req, keyid, path, prior, dir, data>>

\* Lines 191-204 as they would be if a failing close() were surfaced to the
\* caller: the status becomes 500.
AfterWrite_closefatal(r) ==
    /\ pc[r] = "written"
    /\ IF ret[r] = -1 \/ ret[r] # Len(req[r].body)
       THEN /\ kore_log(r, "failed to write keyfile")
            /\ \E c \in {0, -1} : close(r, c)
            /\ pc' = [pc EXCEPT ![r] = "closed"]
            /\ UNCHANGED <<errno, ret, resp, rv>>
       ELSE /\ \E c \in {0, -1} :
                 /\ close(r, c)
                 /\ IF c = -1
                    THEN /\ kore_log(r, "failed to close")
                         /\ http_response(r, 500)
                    ELSE /\ http_response(r, 201)
                         /\ UNCHANGED logged
            /\ Return(r, "KORE_RESULT_OK")
    /\ UNCHANGED <<pool, req, keyid, path, prior, dir, data>>

\* Lines 191-204 as they would be with only ret == -1 tested: a short write
\* is taken for a complete one.
AfterWrite_unchecked(r) ==
    /\ pc[r] = "written"
    /\ IF ret[r] = -1
       THEN /\ kore_log(r, "failed to write keyfile")
            /\ \E c \in {0, -1} : close(r, c)
            /\ pc' = [pc EXCEPT ![r] = "closed"]
            /\ UNCHANGED <<errno, ret, resp, rv>>
       ELSE /\ \E c \in {0, -1} :
                 /\ close(r, c)
                 /\ IF c = -1
                    THEN kore_log(r, "failed to close")
                    ELSE UNCHANGED logged
            /\ http_response(r, 201)
            /\ Return(r, "KORE_RESULT_OK")
    /\ UNCHANGED <<pool, req, keyid, path, prior, dir, data>>

\* Lines 191-193, the failed write's close(), or lines 199-204.
AfterWrite(r) ==
    /\ pc[r] = "written"
    /\ IF ret[r] = -1 \/ ret[r] # Len(req[r].body)
       THEN /\ kore_log(r, "failed to write keyfile")
            /\ \E c \in {0, -1} : close(r, c)
            /\ pc' = [pc EXCEPT ![r] = "closed"]
            /\ UNCHANGED <<errno, ret, resp, rv>>
       ELSE /\ \E c \in {0, -1} :
                 /\ close(r, c)
                 /\ IF c = -1
                    THEN kore_log(r, "failed to close")
                    ELSE UNCHANGED logged
            /\ http_response(r, 201)
            /\ Return(r, "KORE_RESULT_OK")
    /\ UNCHANGED <<pool, req, keyid, path, prior, dir, data>>

\* Line 194 as it would be were path a static buffer shared by the
\* invocations: the name unlinked is the one formatted last.
Unlink_shared(r) ==
    /\ pc[r] = "closed"
    /\ LET last == CHOOSE q \in Reqs :
                      /\ path[q] # <<>>
                      /\ \A x \in Reqs : path[x] # <<>> => x <= q
       IN  unlink(r, path[last])
    /\ pc' = [pc EXCEPT ![r] = "unlinked"]
    /\ UNCHANGED <<pool, req, keyid, path, fd, errno, ret, resp, rv, logged, prior>>

\* The cleanup as it would be with the unlink() left out.
Unlink_forgotten(r) ==
    /\ pc[r] = "closed"
    /\ pc' = [pc EXCEPT ![r] = "unlinked"]
    /\ UNCHANGED <<pool, req, keyid, path, fd, errno, ret, resp, rv, ops, logged,
                   prior, dir, data>>

\* Line 194.
Unlink(r) ==
    /\ pc[r] = "closed"
    /\ unlink(r, path[r])
    /\ pc' = [pc EXCEPT ![r] = "unlinked"]
    /\ UNCHANGED <<pool, req, keyid, path, fd, errno, ret, resp, rv, logged, prior>>

\* The failed write's exit as it would be with the http_response() left out.
Fail_silent(r) ==
    /\ pc[r] = "unlinked"
    /\ Return(r, "KORE_RESULT_OK")
    /\ UNCHANGED <<pool, req, keyid, path, fd, resp, ops, logged, prior, dir, data>>

\* Lines 195-196.
Fail(r) ==
    /\ pc[r] = "unlinked"
    /\ http_response(r, 500)
    /\ Return(r, "KORE_RESULT_OK")
    /\ UNCHANGED <<pool, req, keyid, path, fd, ops, logged, prior, dir, data>>

\* Line 190 for a request the host delivered without a body buffer
\* (http_body is NULL when the request carried no content): evaluating
\* req->http_body->data dereferences a null pointer.  The behaviour is
\* undefined; what a build produces is the death of the process serving the
\* request: no write, no response, no return, the descriptor closed by the
\* kernel and the file left as open() created it.
Fault(r) ==
    /\ pc[r] = "opened"
    /\ fd[r] # NoFd
    /\ req[r].body = <<>>
    /\ pc' = [pc EXCEPT ![r] = "crashed"]
    /\ fd' = [fd EXCEPT ![r] = NoFd]
    /\ UNCHANGED <<pool, req, keyid, path, errno, ret, resp, rv, ops, logged,
                   prior, dir, data>>

Next ==
    \E r \in Reqs :
        \/ Begin(r)
        \/ AfterOpen(r)
        \/ Fault(r)
        \/ AfterWrite(r)
        \/ Unlink(r)
        \/ Fail(r)

Spec == Init /\ [][Next]_vars

\* worker_count = 1: one worker serves the requests, and the handler, which
\* never yields, is run for a request only when it is not running for another.
\* A worker that died is replaced, so requests may arrive after a fault.
SerialBegin(r) ==
    /\ \A q \in Reqs : pc[q] \in {"idle", "done", "crashed"}
    /\ Begin(r)

SerialNext ==
    \E r \in Reqs :
        \/ SerialBegin(r)
        \/ AfterOpen(r)
        \/ Fault(r)
        \/ AfterWrite(r)
        \/ Unlink(r)
        \/ Fail(r)

\* The shipped deployment.
SpecSerial == Init /\ [][SerialNext]_vars

\* Once entered the handler runs on: it waits for nothing but its system
\* calls, each of which returns.  Arrivals are not forced.
FairSpec ==
    Spec /\ \A r \in Reqs :
                WF_vars(AfterOpen(r) \/ AfterWrite(r) \/ Unlink(r) \/ Fail(r))

\* ------------------------------------------------------------------- claims

\* The storage names the requests that have arrived address.
Names == {path[r] : r \in Reqs} \ {<<>>}

Started(r) == pc[r] # "idle"

Done(r) == pc[r] = "done"

InFlight(r) == Started(r) /\ ~Done(r)

\* The requests that have arrived for the storage name k.
For(k) == {r \in Reqs : path[r] = k}

\* Request r has sent exactly one response: status st, empty body.
Got(r, st) == resp[r] = <<[status |-> st, len |-> 0]>>

Observes(r, st) == st \in Statuses(r)

\* Request r has made the system call name.
Called(r, name) == \E i \in 1..Len(ops[r]) : ops[r][i].op = name

\* Request r has made the system call name and it failed.
Failed(r, name) ==
    \E i \in 1..Len(ops[r]) : ops[r][i].op = name /\ ops[r][i].failed

\* Request r has made the system call name and it succeeded.
Succeeded(r, name) ==
    \E i \in 1..Len(ops[r]) : ops[r][i].op = name /\ ~ops[r][i].failed

\* C1 as stated: at most one attempt for k observes 201, every other attempt
\* observes 409, and once all attempts have returned one file named for k
\* exists, holding the body of the attempt that observed 201.
C1_AsStated ==
    \A k \in Names :
        LET A == For(k)
            W == {r \in A : Observes(r, 201)}
        IN  /\ Cardinality(W) <= 1
            /\ \A r \in A \ W : Done(r) => Got(r, 409)
            /\ (A # {} /\ \A r \in A : Done(r)) =>
                 \E w \in W : Exists(k) /\ Content(k) = req[w].body

\* C1 (amended): for every name k at most one attempt observes 201; every
\* other attempt that has returned observed 409, or 500 when its own create
\* or write failed; once all attempts have returned and one of them observed
\* 201, the file named for k exists, is the one that attempt created, is the
\* only file created by an attempt for k, and holds exactly that attempt's body.
C1_Uniqueness ==
    \A k \in Names :
        LET A == For(k)
            W == {r \in A : Observes(r, 201)}
        IN  /\ Cardinality(W) <= 1
            /\ \A r \in A \ W :
                 Done(r) =>
                   \/ Got(r, 409)
                   \/ Got(r, 500) /\ (Failed(r, "open") \/ Failed(r, "write"))
            /\ (W # {} /\ \A r \in A : Done(r)) =>
                 \A w \in W :
                   /\ Exists(k)
                   /\ dir[k] = w
                   /\ Content(k) = req[w].body
                   /\ \A n \in DOMAIN dir : dir[n] \in A => n = k

\* Three attempts for one name have returned: one with 201, one with 409 and
\* another body, one with 500 after a failed write; the file holds the
\* winner's body.
C1_Witness ==
    \E k \in Names : \E w, l, f \in For(k) :
        /\ \A r \in For(k) : Done(r)
        /\ Got(w, 201) /\ Got(l, 409) /\ Got(f, 500) /\ Failed(f, "write")
        /\ req[w].body # req[l].body
        /\ Exists(k) /\ Content(k) = req[w].body

\* C2 as stated: in every reachable state the file named for k is absent or
\* its content equals the complete body of one request for k.
C2_NoPartialVisibility ==
    \A k \in DOMAIN dir : \E r \in For(k) : Content(k) = req[r].body

\* Request r holds a descriptor on a file it opened and has not returned.
C3_HasCreated(r) == InFlight(r) /\ Succeeded(r, "open")

\* C3 as stated: at any moment at most one in-flight request has created the
\* file named for k and not yet returned, and a request whose create failed
\* makes no further system call.
C3_AsStated ==
    /\ \A k \in Names : Cardinality({r \in For(k) : C3_HasCreated(r)}) <= 1
    /\ \A r \in Reqs : Failed(r, "open") => Len(ops[r]) = 1

\* Request r holds the claim: it has created the file, has not removed it
\* again and has not returned.
C3_HoldsClaim(r) == C3_HasCreated(r) /\ ~Succeeded(r, "unlink")

C3_Inv ==
    /\ \A k \in Names : Cardinality({r \in For(k) : C3_HoldsClaim(r)}) <= 1
    /\ \A r \in Reqs : Failed(r, "open") => Len(ops[r]) = 1

C3_Step ==
    \A r \in Reqs :
        (pc[r] = "opened" /\ fd[r] = NoFd /\ errno[r] = "EEXIST" /\ pc'[r] # "opened")
            => /\ Got(r, 409)' /\ Done(r)'
               /\ ops'[r] = ops[r] /\ dir' = dir /\ data' = data

\* C3 (amended): for every name k, at any moment at most one in-flight request
\* holds the claim (has created the file, has not unlinked it again and has
\* not yet returned); every request whose create fails because the name
\* exists responds 409 and performs no write, close or unlink.
C3_Ordering == []C3_Inv /\ [][C3_Step]_vars

\* A request in its cleanup path has unlinked the file and not yet returned,
\* another request for the same name holds the claim, a third got 409.
C3_Witness ==
    \E k \in Names : \E r, q, l \in For(k) :
        /\ pc[r] = "unlinked" /\ Succeeded(r, "unlink")
        /\ C3_HoldsClaim(q)
        /\ Got(l, 409) /\ ops[l] = <<[op |-> "open", failed |-> TRUE]>>

\* A key artifact: the file named k whose creator's write was complete.
Artifact(k) == Exists(k) /\ Succeeded(dir[k], "write")

C4_Kept ==
    \A k \in Names :
        Artifact(k) => /\ Artifact(k)'
                       /\ dir'[k] = dir[k]
                       /\ Content(k)' = Content(k)

\* A request arriving for a name whose artifact exists: its create fails.
C4_Rejected ==
    \A r \in Reqs : \A k \in Names :
        (Artifact(k) /\ ~Started(r) /\ path'[r] = k)
            => fd'[r] = NoFd /\ ops'[r] = <<[op |-> "open", failed |-> TRUE]>>

\* A request whose create failed because the name exists is answered 409.
C4_Collision ==
    \A r \in Reqs :
        (errno[r] = "EEXIST" /\ Done(r)') => Got(r, 409)' /\ rv'[r] = "KORE_RESULT_OK"

\* C4: once the artifact named k exists (the file whose creator's write was
\* complete), every step leaves it in place with the same content; the create
\* of every request arriving for k fails, and when it fails because the name
\* exists the request is answered 409.
C4_Immutable ==
    /\ [][C4_Kept]_vars
    /\ [][C4_Rejected]_vars
    /\ [][C4_Collision]_vars

\* The artifact holds "a"; a request with another body collided with it and
\* got 409.
C4_Witness ==
    \E k \in Names : \E l \in For(k) :
        /\ Artifact(k) /\ Content(k) = <<"a">> /\ Done(dir[k])
        /\ req[l].body = <<"a", "b">> /\ Got(l, 409) /\ 201 \in prior[l]

\* C5 as stated: a 409 for k is permanent: no request for k that starts after
\* a 409 was sent for k ever receives 201.
C5_Permanent ==
    \A r \in Reqs : 409 \in prior[r] => ~Observes(r, 201)

\* C6 as stated: once some request for k has received 201, every PUT for k
\* issued afterwards receives 409.
C6_AsStated ==
    \A r \in Reqs : (201 \in prior[r] /\ Done(r)) => Got(r, 409)

\* C6 (amended): once some request for k has received 201, every PUT for k
\* issued afterwards creates nothing and receives 409, or 500 when its create
\* fails for another reason than the name existing (which is logged), and
\* never 201.
C6_IdempotentRejection ==
    \A r \in Reqs :
        201 \in prior[r] =>
            /\ ops[r] = <<[op |-> "open", failed |-> TRUE]>>
            /\ ~Observes(r, 201)
            /\ Done(r) => \/ Got(r, 409) /\ logged[r] = <<>>
                          \/ Got(r, 500) /\ logged[r] = <<"failed to open">>

\* After a 201 for k, the identical PUT was repeated twice and got 409 twice.
C6_Witness ==
    \E w, p, q \in Reqs :
        /\ p # q /\ Got(w, 201)
        /\ req[p] = req[w] /\ 201 \in prior[p] /\ Got(p, 409)
        /\ req[q] = req[w] /\ 201 \in prior[q] /\ Got(q, 409)

C7_Step ==
    \A r \in Reqs :
        (pc[r] = "closed" /\ Succeeded(r, "unlink")') => ~Exists(path[r])'

C7_Inv ==
    \A r \in Reqs :
        /\ (Failed(r, "write") /\ Done(r)) =>
              /\ Got(r, 500)
              /\ Called(r, "unlink")
        /\ Succeeded(r, "unlink") => ~(Exists(path[r]) /\ dir[path[r]] = r)

Segment(rq) == SubSeq(rq.path, strrchr(rq.path, "/") + 1, Len(rq.path))

\* A trailing segment that is empty, holds a character that is no hex digit
\* (after an optional 0x or 0X), or denotes a value above the 32-bit maximum.
Malformed(seg) ==
    LET d == IF Len(seg) >= 2 /\ seg[1] = "0" /\ seg[2] \in {"x", "X"}
             THEN SubSeq(seg, 3, Len(seg))
             ELSE seg
    IN  \/ d = <<>>
        \/ \E i \in 1..Len(d) : ~IsDigit(d[i], 16)
        \/ Gt(Canon([i \in 1..Len(d) |-> DigitVal(d[i])]), UINT_MAX)

\* C8 as stated: every PUT whose trailing segment is malformed is answered 400
\* and makes no system call on the key directory.
C8_Validation ==
    \A r \in Reqs :
        (/\ Started(r)
         /\ req[r].method = "PUT"
         /\ strrchr(req[r].path, "/") # 0
         /\ Malformed(Segment(req[r])))
            => Got(r, 400) /\ ops[r] = <<>>

\* C9 as stated: every invocation that has returned has sent exactly one
\* response, with a status in {201, 400, 409, 500} and an empty body.
C9_AsStated ==
    \A r \in Reqs :
        Done(r) => \E st \in {201, 400, 409, 500} : Got(r, st)

\* C9 (amended): an invocation for a method other than PUT or a path without
\* '/' returns KORE_RESULT_ERROR without sending a response; every other
\* invocation sends no response before its last step and has sent exactly one
\* by the time it returns, with a status in {201, 400, 409, 500} and an empty
\* body, and returns KORE_RESULT_OK.
C9_OneResponse ==
    \A r \in Reqs :
        /\ InFlight(r) => resp[r] = <<>>
        /\ Done(r) =>
             IF req[r].method # "PUT" \/ strrchr(req[r].path, "/") = 0
             THEN resp[r] = <<>> /\ rv[r] = "KORE_RESULT_ERROR"
             ELSE /\ \E st \in {201, 400, 409, 500} : Got(r, st)
                  /\ rv[r] = "KORE_RESULT_OK"

\* One invocation returned an error without a response, one was answered 201
\* after a failed close, one 500 after a failed write and a failed unlink.
C9_Witness ==
    \E e, w, f \in Reqs :
        /\ Done(e) /\ rv[e] = "KORE_RESULT_ERROR" /\ resp[e] = <<>>
        /\ Got(w, 201) /\ logged[w] = <<"failed to close">>
        /\ Got(f, 500) /\ Failed(f, "write") /\ Failed(f, "unlink")

\* C10: the step in which a request whose method is not PUT, or whose path
\* holds no '/', arrives and is rejected leaves the set of files and their
\* contents as they were; the request makes no system call and has returned.
C10_NoSideEffects ==
    [][\A r \in Reqs :
         (/\ ~Started(r) /\ Started(r)'
          /\ req'[r].method # "PUT" \/ strrchr(req'[r].path, "/") = 0)
             => /\ dir' = dir /\ data' = data /\ fd' = fd
                /\ ops'[r] = <<>> /\ Done(r)']_vars

\* A GET for 0x1 and a PUT without '/' were rejected while another request
\* for 0x1 was in flight between its create and its write.
C10_Witness ==
    \E g, n, q \in Reqs :
        /\ q < g /\ q < n
        /\ pc[q] = "opened" /\ Exists(path[q]) /\ dir[path[q]] = q
        /\ Done(g) /\ req[g].method = "GET" /\ ops[g] = <<>>
        /\ Done(n) /\ req[n].method = "PUT" /\ strrchr(req[n].path, "/") = 0
        /\ ops[n] = <<>>

\* C11: cleanup failures never change the status.  A request whose write was
\* complete and whose close failed (which is logged) is answered 201, once,
\* and returns KORE_RESULT_OK, and from then on the file named for k is the
\* one it created, holding its full body; a request whose write failed or was
\* short has, when it returns, called close and unlink, been answered 500,
\* once, and returned KORE_RESULT_OK, whether its unlink succeeded or failed;
\* no request ever sends a second response.
C11_StatusStands ==
    \A r \in Reqs :
        /\ Len(resp[r]) <= 1
        /\ logged[r] = <<"failed to close">> =>
              /\ Succeeded(r, "write")
              /\ Done(r) /\ Got(r, 201) /\ rv[r] = "KORE_RESULT_OK"
              /\ Exists(path[r]) /\ dir[path[r]] = r
              /\ Content(path[r]) = req[r].body
        /\ (Failed(r, "write") /\ Done(r)) =>
              /\ Called(r, "close") /\ Called(r, "unlink")
              /\ Got(r, 500) /\ rv[r] = "KORE_RESULT_OK"
              /\ logged[r] = <<"failed to write keyfile">>

\* Three requests have returned: one answered 201 after a failed close, its
\* two-byte body in the file; one answered 500 after a short write and a
\* successful unlink; one answered 500 after a failed write and a failed
\* unlink.
C11_Witness ==
    \E w, f, g \in Reqs :
        /\ Got(w, 201) /\ logged[w] = <<"failed to close">>
        /\ req[w].body = <<"a", "b">> /\ Content(path[w]) = <<"a", "b">>
        /\ Got(f, 500) /\ Failed(f, "write") /\ Succeeded(f, "unlink")
        /\ Got(g, 500) /\ Failed(g, "write") /\ Failed(g, "unlink")

\* The system calls of an invocation through the partial-write cleanup path.
C12_CleanupPath(u) ==
    <<[op |-> "open", failed |-> FALSE], [op |-> "write", failed |-> TRUE],
      [op |-> "close", failed |-> FALSE], [op |-> "unlink", failed |-> u]>>

\* The system calls of an invocation whose write was complete.
C12_CreatedPath ==
    <<[op |-> "open", failed |-> FALSE], [op |-> "write", failed |-> FALSE],
      [op |-> "close", failed |-> FALSE]>>

C12_Prefix(s, t) == Len(s) <= Len(t) /\ s = SubSeq(t, 1, Len(s))

C12_Inv ==
    \A r \in Reqs :
        /\ \/ ops[r] = <<[op |-> "open", failed |-> TRUE]>>
           \/ C12_Prefix(ops[r], C12_CreatedPath)
           \/ \E u \in BOOLEAN : C12_Prefix(ops[r], C12_CleanupPath(u))
        /\ Observes(r, 201) => ops[r] = C12_CreatedPath
        /\ Observes(r, 400) => ops[r] = <<>>
        /\ Observes(r, 409) => ops[r] = <<[op |-> "open", failed |-> TRUE]>>

\* Every entry that appears was created by the successful open(), the first
\* system call, of the request addressing it; every entry that disappears was
\* removed by the successful unlink() of a request that created it and whose
\* write failed; a step changes one entry at most.
C12_Step ==
    /\ Cardinality(DOMAIN dir' \ DOMAIN dir)
         + Cardinality(DOMAIN dir \ DOMAIN dir') <= 1
    /\ \A n \in DOMAIN dir' \ DOMAIN dir :
         \E r \in Reqs :
            /\ ops[r] = <<>> /\ ops'[r] = <<[op |-> "open", failed |-> FALSE]>>
            /\ path'[r] = n /\ dir'[n] = r
    /\ \A n \in DOMAIN dir \ DOMAIN dir' :
         \E r \in Reqs :
            /\ ops[r] = SubSeq(C12_CleanupPath(FALSE), 1, 3)
            /\ ops'[r] = C12_CleanupPath(FALSE)
            /\ path[r] = n /\ dir[n] = r

\* C12: an invocation's system calls are a failed open alone, or a prefix of
\* create, complete write, close, or a prefix of create, failed write, close,
\* unlink: at most one entry created and at most one deleted, the delete only
\* after the invocation's own create succeeded and its write failed.  An
\* invocation answered 201 made no unlink, one answered 400 no system call,
\* one answered 409 only its failed open.  No entry appears or disappears
\* except through these calls.
C12_SideEffectBound == []C12_Inv /\ [][C12_Step]_vars

\* For one name: a request created the file, failed its write, deleted the
\* file and got 500; a later one created it again and got 201; a third got
\* 409 having created nothing.
C12_Witness ==
    \E f, w, l \in Reqs :
        /\ path[f] = path[w] /\ path[l] = path[w]
        /\ ops[f] = C12_CleanupPath(FALSE) /\ Got(f, 500)
        /\ ops[w] = C12_CreatedPath /\ Got(w, 201) /\ dir[path[w]] = w
        /\ ops[l] = <<[op |-> "open", failed |-> TRUE]>> /\ Got(l, 409)

\* C13 as stated: whenever no request is in flight, for every name k the file
\* named for k exists if and only if some request for k received 201, and
\* then its content equals that request's body (so no file exists for a name
\* whose every request ended in 400, 409 or 500).
C13_RegistrationRecord ==
    (\A r \in Reqs : ~InFlight(r)) =>
        \A k \in Names \cup DOMAIN dir :
            /\ Exists(k) <=> \E r \in For(k) : Got(r, 201)
            /\ Exists(k) =>
                 \E r \in For(k) : Got(r, 201) /\ Content(k) = req[r].body

Crashed(r) == pc[r] = "crashed"

\* C14 as stated: no input and no failure of create, write, close or unlink
\* puts the process serving a request in a crashed state, and under fair
\* scheduling every request that has started eventually returns.
C14_Terminates ==
    /\ [](\A r \in Reqs : ~Crashed(r))
    /\ \A r \in Reqs : Started(r) ~> Done(r)

\* The value a well-formed trailing segment denotes: its hex digits, after an
\* optional 0x or 0X.
C15_Value(seg) ==
    LET d == IF Len(seg) >= 2 /\ seg[1] = "0" /\ seg[2] \in {"x", "X"}
             THEN SubSeq(seg, 3, Len(seg))
             ELSE seg
    IN  Canon([i \in 1..Len(d) |-> DigitVal(d[i])])

\* name is 0x<h>.key with h the lowercase hexadecimal text of v without
\* leading zeros.
C15_Canonical(name, v) ==
    /\ Len(name) >= 7
    /\ SubSeq(name, 1, 2) = <<"0", "x">>
    /\ SubSeq(name, Len(name) - 3, Len(name)) = <<".", "k", "e", "y">>
    /\ LET h == SubSeq(name, 3, Len(name) - 4)
       IN  /\ \A i \in 1..Len(h) : \E j \in 1..16 : h[i] = HexDigits[j]
           /\ Len(h) > 1 => h[1] # "0"
           /\ Canon([i \in 1..Len(h) |-> DigitVal(h[i])]) = v

\* The name addressed is the canonical name of the value the segment denotes,
\* and two requests address the same name exactly when their values are equal.
C15_Naming ==
    \A r \in Reqs :
        path[r] # <<>> =>
            /\ C15_Canonical(path[r], keyid[r])
            /\ ~Malformed(Segment(req[r])) => keyid[r] = C15_Value(Segment(req[r]))
            /\ \A q \in Reqs :
                 path[q] # <<>> => (keyid[q] = keyid[r] <=> path[q] = path[r])

\* C15 as stated: the name is 0x<lowercase hex, no leading zeros>.key of the
\* parsed value alone; of two requests whose segments parse to the same
\* value, the one that starts after the other received 201 targets the same
\* name and gets 409; requests for different values target different names.
C15_AsStated ==
    /\ C15_Naming
    /\ \A r, q \in Reqs :
         (/\ q # r /\ Got(q, 201) /\ keyid[q] = keyid[r]
          /\ 201 \in prior[r] /\ Done(r))
             => path[r] = path[q] /\ Got(r, 409)

\* C15 (amended): the name is 0x<lowercase hex, no leading zeros>.key of the
\* parsed value alone, so segments that parse to the same value (0x1, 001, 1)
\* target the same name, and different values different names; a request that
\* starts after another of the same value received 201 creates nothing and
\* gets 409, or 500 when its create fails for another reason than the name
\* existing; a request gets 409 only when a request of the same value created
\* the file, never because of a file of another value.
C15_CanonicalName ==
    /\ C15_Naming
    /\ \A r, q \in Reqs :
         (/\ q # r /\ Got(q, 201) /\ keyid[q] = keyid[r] /\ 201 \in prior[r])
             => /\ path[r] = path[q]
                /\ ops[r] = <<[op |-> "open", failed |-> TRUE]>>
                /\ Done(r) => \/ Got(r, 409)
                              \/ Got(r, 500) /\ logged[r] = <<"failed to open">>
    /\ \A r \in Reqs :
         Got(r, 409) =>
            \E q \in Reqs \ {r} : keyid[q] = keyid[r] /\ Succeeded(q, "open")

\* A request for 0x1 received 201; a later one for 001, the same value
\* written differently, addressed 0x1.key too and got 409.
C15_Witness ==
    \E w, l \in Reqs :
        /\ Segment(req[w]) = <<"0", "x", "1">> /\ Got(w, 201)
        /\ Segment(req[l]) = <<"0", "0", "1">> /\ Got(l, 409)
        /\ path[w] = <<"0", "x", "1", ".", "k", "e", "y">>
        /\ path[l] = path[w] /\ 201 \in prior[l]

\* A request that is the only one for its name has, whatever the requests for
\* other names did meanwhile, the outcome it has when run alone on an empty
\* directory: never 409, and by its own system calls' results 201 with its
\* body in its file, or 500 with no file (failed create, or failed write and
\* removed file), or 500 with the file it created left (failed unlink).
C16_Inv ==
    \A r \in Reqs :
        (path[r] # <<>> /\ For(path[r]) = {r}) =>
            LET k == path[r]
            IN  /\ ~Observes(r, 409)
                /\ Done(r) =>
                     \/ /\ ops[r] = C12_CreatedPath /\ Got(r, 201)
                        /\ Exists(k) /\ dir[k] = r /\ Content(k) = req[r].body
                     \/ /\ ops[r] = <<[op |-> "open", failed |-> TRUE]>>
                        /\ Got(r, 500) /\ ~Exists(k)
                     \/ /\ ops[r] = C12_CleanupPath(FALSE)
                        /\ Got(r, 500) /\ ~Exists(k)
                     \/ /\ ops[r] = C12_CleanupPath(TRUE)
                        /\ Got(r, 500) /\ Exists(k) /\ dir[k] = r

\* A step changes the existence, the identity or the content of the file of a
\* name only when it is a system call of a request for that name, and the
\* create of a request succeeds exactly when no file of its own name exists.
C16_Frame ==
    /\ \A n \in DOMAIN dir \cup DOMAIN dir' :
         \/ /\ n \in DOMAIN dir /\ n \in DOMAIN dir'
            /\ dir'[n] = dir[n] /\ data'[dir[n]] = data[dir[n]]
         \/ \E r \in Reqs : ops'[r] # ops[r] /\ path'[r] = n
    /\ \A r \in Reqs :
         (ops[r] = <<>> /\ ops'[r] # <<>>) =>
            /\ Succeeded(r, "open")' => ~Exists(path'[r])
            /\ errno'[r] = "EEXIST" => Exists(path'[r])

\* C16: a request for k never creates, writes or deletes the file of another
\* name, its create depends on the existence of k's file alone, and a request
\* alone on its name ends, under every interleaving with requests for other
\* names, as it does when run by itself.
C16_Independence == []C16_Inv /\ [][C16_Frame]_vars

\* A request for 0x1 stands between its failed write's close and its unlink;
\* a request for 0x2 that arrived after it has meanwhile created its file,
\* written it and got 201.
C16_Witness ==
    \E q, r \in Reqs :
        /\ q < r /\ path[q] # <<>> /\ path[r] # <<>> /\ path[q] # path[r]
        /\ pc[q] = "closed" /\ Exists(path[q])
        /\ Got(r, 201) /\ For(path[r]) = {r}
        /\ Exists(path[r]) /\ Content(path[r]) = req[r].body

\* A request about to unlink finds under its name the file it created.
C17_Inv ==
    \A r \in Reqs :
        pc[r] = "closed" =>
            /\ Exists(path[r]) /\ dir[path[r]] = r
            /\ Failed(r, "write")

\* Every name that disappears in a step is removed by a request in its
\* failed-write path, held the file that request created, and no request
\* has received 201 for it; a file whose creator's write was complete is
\* never removed.
C17_Step ==
    \A n \in DOMAIN dir \ DOMAIN dir' :
        /\ \E r \in Reqs :
              /\ pc[r] = "closed" /\ pc'[r] = "unlinked"
              /\ path[r] = n /\ dir[n] = r
              /\ Succeeded(r, "open") /\ Failed(r, "write")
        /\ ~Artifact(n)
        /\ 201 \notin Sent(n)

\* C17: the unlink of the failed-write path removes only the file the same
\* invocation created: under every interleaving the name it removes holds
\* that file, never a file created by another request and never an artifact
\* for which a request received 201.
C17_OwnClaim == []C17_Inv /\ [][C17_Step]_vars

\* A request has removed the file it created and has not yet returned; a
\* second request for the same name has since created the file anew, written
\* it and received 201, and its file is in place.
C17_Witness ==
    \E r, q \in Reqs :
        /\ pc[r] = "unlinked" /\ Succeeded(r, "unlink")
        /\ path[q] = path[r] /\ Got(q, 201)
        /\ Exists(path[q]) /\ dir[path[q]] = q /\ Content(path[q]) = req[q].body

\* The positions of the system call name among those request r made.
C18_At(r, name) == {i \in 1..Len(ops[r]) : ops[r][i].op = name}

\* C18: a request holds a descriptor only between its successful create and
\* its close, while in flight; a request that has returned holds none, has
\* closed exactly once when its create succeeded and never otherwise; on the
\* failed-write path the close precedes the unlink, and no response is sent
\* before the unlink was called.  Hence no descriptor is open when no request
\* is in flight.
C18_HandleDiscipline ==
    \A r \in Reqs :
        /\ fd[r] # NoFd =>
              /\ InFlight(r) /\ fd[r] = r
              /\ Succeeded(r, "open") /\ C18_At(r, "close") = {}
        /\ Done(r) =>
              /\ fd[r] = NoFd
              /\ Cardinality(C18_At(r, "close")) =
                    IF Succeeded(r, "open") THEN 1 ELSE 0
        /\ \A i \in C18_At(r, "unlink") :
              /\ Failed(r, "write")
              /\ \E j \in C18_At(r, "close") : j < i
        /\ (Failed(r, "write") /\ resp[r] # <<>>) =>
              /\ C18_At(r, "unlink") # {}
              /\ Got(r, 500) /\ Done(r)

\* No request is in flight and no descriptor is open: one request returned
\* by the success path, one by the failed-write path (close, then unlink,
\* then 500), one after a failed create.
C18_Witness ==
    /\ \A r \in Reqs : Done(r) /\ fd[r] = NoFd
    /\ \E w, f, l \in Reqs :
          /\ ops[w] = C12_CreatedPath /\ Got(w, 201)
          /\ \E u \in BOOLEAN : ops[f] = C12_CleanupPath(u)
          /\ Got(f, 500)
          /\ Failed(l, "open") /\ C18_At(l, "close") = {}

\* Request r is running the handler.
Running(r) == InFlight(r) /\ ~Crashed(r)

\* C19 as stated, for the single-worker deployment: invocations do not
\* interleave; no request whose create is refused finds the file of a request
\* still running; and a request is answered 409 only when the file under its
\* name is a completed artifact or the leftover of a failed write whose
\* unlink failed too.
C19_Serialized ==
    /\ Cardinality({r \in Reqs : Running(r)}) <= 1
    /\ \A r \in Reqs :
         (pc[r] = "opened" /\ errno[r] = "EEXIST") =>
            Exists(path[r]) /\ ~Running(dir[path[r]])
    /\ \A r \in Reqs :
         Got(r, 409) =>
            /\ Exists(path[r])
            /\ LET c == dir[path[r]]
               IN  \/ Succeeded(c, "write")
                   \/ Failed(c, "write") /\ Failed(c, "unlink")

====
